---- MODULE Spec2Model ----
(***************************************************************************)
(* A model of ulid.hpp (cpp_ulid): the 16-byte identifier value, the       *)
(* Crockford Base32 codec, the readable-form codec and the per-thread      *)
(* generators.                                                             *)
(*                                                                         *)
(* Representation.  TLC's integers are 32 bits wide, so a std::uint64_t is *)
(* a tuple of four 16-bit limbs, and the shifts, ors and masks of the      *)
(* source are computed limb by limb with the bits shifted out of the word  *)
(* dropped (value mod 2^64).  A byte is an                                 *)
(* integer 0..255; std::array<byte,16> is a sequence of 16 bytes, index    *)
(* i+1 for bytes[i].  A char is a one-character string, a std::string a    *)
(* sequence of chars.  std::optional<T> is a record with a tag.            *)
(***************************************************************************)
EXTENDS Integers, Sequences, FiniteSets, TLC

-----------------------------------------------------------------------------
(* std::uint64_t arithmetic on four 16-bit limbs, least significant first *)

Pow2(k) == 2^k

Limb == Pow2(16)

\* the word holding the small non-negative integer n (n < 2^31)
U64(n) == <<n % Limb, n \div Limb, 0, 0>>

\* limb i of w, 0 outside the word
LimbAt(w, i) == IF i >= 1 /\ i <= 4 THEN w[i] ELSE 0

\* limb i of w << n, for 0 <= n < 64: bits leaving the word are lost
ShlLimb(w, n, i) ==
    LET q == n \div 16
        r == n % 16
    IN  ((LimbAt(w, i - q) % Pow2(16 - r)) * Pow2(r)) + (LimbAt(w, i - q - 1) \div Pow2(16 - r))

Shl(w, n) == <<ShlLimb(w, n, 1), ShlLimb(w, n, 2), ShlLimb(w, n, 3), ShlLimb(w, n, 4)>>

\* limb i of w >> n, for 0 <= n < 64
ShrLimb(w, n, i) ==
    LET q == n \div 16
        r == n % 16
    IN  (LimbAt(w, i + q) \div Pow2(r)) + ((LimbAt(w, i + q + 1) % Pow2(r)) * Pow2(16 - r))

Shr(w, n) == <<ShrLimb(w, n, 1), ShrLimb(w, n, 2), ShrLimb(w, n, 3), ShrLimb(w, n, 4)>>

\* a | b and a ^ b on non-negative integers, bit by bit
RECURSIVE OrInt(_, _)
OrInt(a, b) ==
    IF a = 0 THEN b
    ELSE IF b = 0 THEN a
    ELSE (IF a % 2 = 1 \/ b % 2 = 1 THEN 1 ELSE 0) + 2 * OrInt(a \div 2, b \div 2)

RECURSIVE XorInt(_, _)
XorInt(a, b) ==
    IF a = 0 THEN b
    ELSE IF b = 0 THEN a
    ELSE (((a % 2) + (b % 2)) % 2) + 2 * XorInt(a \div 2, b \div 2)

BitOr(a, b) == <<OrInt(a[1], b[1]), OrInt(a[2], b[2]), OrInt(a[3], b[3]), OrInt(a[4], b[4])>>

BitXor(a, b) ==
    <<XorInt(a[1], b[1]), XorInt(a[2], b[2]), XorInt(a[3], b[3]), XorInt(a[4], b[4])>>

\* w & (2^n - 1) as an integer, for n <= 16
LowBits(w, n) == w[1] % Pow2(n)

\* bit i of w
BitAt(w, i) == (w[(i \div 16) + 1] \div Pow2(i % 16)) % 2

\* unsigned comparison a < b and a > b of two words
RECURSIVE WordLessFrom(_, _, _)
WordLessFrom(a, b, i) ==
    IF i < 1 THEN FALSE
    ELSE IF a[i] # b[i] THEN a[i] < b[i]
    ELSE WordLessFrom(a, b, i - 1)

WordLess(a, b) == WordLessFrom(a, b, 4)

WordGreater(a, b) == WordLess(b, a)

\* the word whose big-endian bytes are the 8-byte sequence bs
WordOfBytes(bs) ==
    <<bs[7] * 256 + bs[8], bs[5] * 256 + bs[6], bs[3] * 256 + bs[4], bs[1] * 256 + bs[2]>>

-----------------------------------------------------------------------------
(* std::optional and the not-yet-computed result of a step *)

Unset == [tag |-> "unset", val |-> <<>>]

nullopt == [tag |-> "nullopt", val |-> <<>>]

Some(v) == [tag |-> "some", val |-> v]

-----------------------------------------------------------------------------
(* chars and std::string comparison *)

DigitChars == <<"0", "1", "2", "3", "4", "5", "6", "7", "8", "9">>

UpperChars == <<"A", "B", "C", "D", "E", "F", "G", "H", "I", "J", "K", "L", "M",
                "N", "O", "P", "Q", "R", "S", "T", "U", "V", "W", "X", "Y", "Z">>

LowerChars == <<"a", "b", "c", "d", "e", "f", "g", "h", "i", "j", "k", "l", "m",
                "n", "o", "p", "q", "r", "s", "t", "u", "v", "w", "x", "y", "z">>

\* other ASCII characters used as inputs, with their codes
OtherChars == <<[c |-> " ", code |-> 32], [c |-> "!", code |-> 33],
                [c |-> "-", code |-> 45], [c |-> "/", code |-> 47],
                [c |-> ":", code |-> 58], [c |-> "@", code |-> 64],
                [c |-> "[", code |-> 91], [c |-> "_", code |-> 95],
                [c |-> "~", code |-> 126]>>

IndexOf(seq, x) == CHOOSE i \in 1..Len(seq) : seq[i] = x

InSeq(seq, x) == \E i \in 1..Len(seq) : seq[i] = x

\* the ASCII code of a char (the value std::char_traits<char>::lt compares)
Ascii(c) ==
    IF InSeq(DigitChars, c) THEN 47 + IndexOf(DigitChars, c)
    ELSE IF InSeq(UpperChars, c) THEN 64 + IndexOf(UpperChars, c)
    ELSE IF InSeq(LowerChars, c) THEN 96 + IndexOf(LowerChars, c)
    ELSE LET i == CHOOSE j \in 1..Len(OtherChars) : OtherChars[j].c = c
         IN  OtherChars[i].code

\* std::string operator<: lexicographic by char code, a proper prefix is less
RECURSIVE StrLessFrom(_, _, _)
StrLessFrom(s, t, i) ==
    IF i > Len(t) THEN FALSE
    ELSE IF i > Len(s) THEN TRUE
    ELSE IF Ascii(s[i]) # Ascii(t[i]) THEN Ascii(s[i]) < Ascii(t[i])
    ELSE StrLessFrom(s, t, i + 1)

StrLess(s, t) == StrLessFrom(s, t, 1)

-----------------------------------------------------------------------------
(* ulid_t: std::array<byte, 16> data, and its byte spans *)

Byte == 0..255

ZeroData == [i \in 1..16 |-> 0]

timestamp_bytes(data) == SubSeq(data, 1, 6)

random_bytes(data) == SubSeq(data, 7, 16)

high_bytes(data) == SubSeq(data, 1, 8)

low_bytes(data) == SubSeq(data, 9, 16)

\* from_bytes: the 16 bytes copied in order
\* from_bytes() filling data from the last byte to the first
from_bytes_reversed(bytes) == [i \in 1..16 |-> bytes[17 - i]]

from_bytes(bytes) == <<bytes[1], bytes[2], bytes[3], bytes[4], bytes[5], bytes[6],
                       bytes[7], bytes[8], bytes[9], bytes[10], bytes[11], bytes[12],
                       bytes[13], bytes[14], bytes[15], bytes[16]>>

\* operator<=> (defaulted): std::array compares its bytes lexicographically
RECURSIVE DataLessFrom(_, _, _)
DataLessFrom(a, b, i) ==
    IF i > 16 THEN FALSE
    ELSE IF a[i] # b[i] THEN a[i] < b[i]
    ELSE DataLessFrom(a, b, i + 1)

UlidLess(a, b) == DataLessFrom(a, b, 1)

\* write_big_endian<N>(value, out): out[i] = (value >> ((N-1-i)*8)) & 0xFF
write_big_endian(N, value) ==
    [i \in 1..N |-> LowBits(Shr(value, (N - i) * 8), 8)]

\* timestamp_ms(): ts = (ts << 8) | b over the six timestamp bytes
RECURSIVE ShiftInBytes(_, _, _)
ShiftInBytes(ts, bs, i) ==
    IF i > Len(bs) THEN ts
    ELSE ShiftInBytes(BitOr(Shl(ts, 8), U64(bs[i])), bs, i + 1)

\* to_bytes(): a copy of data
to_bytes(data) == [i \in 1..16 |-> data[i]]

\* the defaulted comparison's operator==: data == other.data, element by
\* element
UlidEqual(a, b) == \A i \in 1..16 : a[i] = b[i]

\* timestamp_ms() reading eight bytes instead of six
timestamp_ms_8_bytes(data) == WordOfBytes(SubSeq(data, 1, 8))

timestamp_ms(data) == ShiftInBytes(U64(0), timestamp_bytes(data), 1)

-----------------------------------------------------------------------------
(* Crockford Base32 *)

\* the RFC 4648 base32hex alphabet in place of Crockford's
ENCODING_base32hex == <<"0", "1", "2", "3", "4", "5", "6", "7", "8", "9",
                        "A", "B", "C", "D", "E", "F", "G", "H", "I", "J",
                        "K", "L", "M", "N", "O", "P", "Q", "R", "S", "T",
                        "U", "V">>

\* Crockford's alphabet in lowercase
ENCODING_lowercase == <<"0", "1", "2", "3", "4", "5", "6", "7", "8", "9",
                        "a", "b", "c", "d", "e", "f", "g", "h", "j", "k",
                        "m", "n", "p", "q", "r", "s", "t", "v", "w", "x",
                        "y", "z">>

ENCODING == <<"0", "1", "2", "3", "4", "5", "6", "7", "8", "9",
              "A", "B", "C", "D", "E", "F", "G", "H", "J", "K",
              "M", "N", "P", "Q", "R", "S", "T", "V", "W", "X",
              "Y", "Z">>

\* a digit extraction whose middle branch forgets the bits of hi
extract_digit_lo_only(hi, lo, index) ==
    LET shift == 125 - (5 * index)
    IN  IF shift = 0 THEN LowBits(lo, 5)
        ELSE IF shift < 64 THEN LowBits(Shr(lo, shift), 5)
        ELSE LowBits(Shr(hi, shift - 64), 5)

\* extract_digit whose last branch shifts hi one bit too few
extract_digit_high_off_by_one(hi, lo, index) ==
    LET shift == 125 - (5 * index)
    IN  IF shift = 0 THEN LowBits(lo, 5)
        ELSE IF shift < 64
             THEN LowBits(BitOr(Shl(hi, 64 - shift), Shr(lo, shift)), 5)
        ELSE LowBits(Shr(hi, shift - 65), 5)

\* extract_digit(hi, lo, index): the three branches on shift = 125 - 5*index
extract_digit(hi, lo, index) ==
    LET shift == 125 - (5 * index)
    IN  IF shift = 0 THEN LowBits(lo, 5)
        ELSE IF shift < 64
             THEN LowBits(BitOr(Shl(hi, 64 - shift), Shr(lo, shift)), 5)
        ELSE LowBits(Shr(hi, shift - 64), 5)

\* encode_base32(bytes): hi and lo are built byte by byte, then 26 digits
\* are looked up in ENCODING (ENCODING[digit] is index digit + 1 here)
encode_base32(bytes) ==
    LET hi == ShiftInBytes(U64(0), SubSeq(bytes, 1, 8), 1)
        lo == ShiftInBytes(U64(0), SubSeq(bytes, 9, 16), 1)
    IN  [i \in 1..26 |-> ENCODING[extract_digit(hi, lo, i - 1) + 1]]

to_string(data) == encode_base32(data)

\* the case labels of the switch in decode_crockford, the labels that return
\* u{v} at index v + 1
SwitchCases ==
    <<{"0", "O", "o"}, {"1", "I", "i", "L", "l"}, {"2"}, {"3"}, {"4"}, {"5"}, {"6"},
      {"7"}, {"8"}, {"9"}, {"A", "a"}, {"B", "b"}, {"C", "c"}, {"D", "d"}, {"E", "e"},
      {"F", "f"}, {"G", "g"}, {"H", "h"}, {"J", "j"}, {"K", "k"}, {"M", "m"},
      {"N", "n"}, {"P", "p"}, {"Q", "q"}, {"R", "r"}, {"S", "s"}, {"T", "t"},
      {"V", "v"}, {"W", "w"}, {"X", "x"}, {"Y", "y"}, {"Z", "z"}>>

\* a decoder that lacks the case label 'l'
decode_crockford_no_l(c) ==
    IF c # "l" /\ \E k \in 1..32 : c \in SwitchCases[k]
    THEN Some((CHOOSE k \in 1..32 : c \in SwitchCases[k]) - 1)
    ELSE nullopt

\* decode_crockford(c): the value of the case c is a label of, nullopt in the
\* default case
decode_crockford(c) ==
    IF \E k \in 1..32 : c \in SwitchCases[k]
    THEN Some((CHOOSE k \in 1..32 : c \in SwitchCases[k]) - 1)
    ELSE nullopt

\* an inner loop that drops the carry between the words
PushDigit_no_carry(acc, v) ==
    <<BitOr(Shl(acc[1], 5), U64(v)), Shl(acc[2], 5), Shl(acc[3], 5)>>

\* the inner loop of from_string over the 192-bit accumulator acc[0..2]:
\* new_carry = a >> 59; a = (a << 5) | carry; carry = new_carry
PushDigit(acc, v) ==
    LET a0 == BitOr(Shl(acc[1], 5), U64(v))
        a1 == BitOr(Shl(acc[2], 5), Shr(acc[1], 59))
        a2 == BitOr(Shl(acc[3], 5), Shr(acc[2], 59))
    IN  <<a0, a1, a2>>

\* the outer loop of from_string over the first n chars of s: nullopt if one
\* of them does not decode, else the accumulator after the n-th
RECURSIVE Accumulate(_, _)
Accumulate(s, n) ==
    IF n = 0 THEN Some(<<U64(0), U64(0), U64(0)>>)
    ELSE LET before == Accumulate(s, n - 1)
             v_opt == decode_crockford(s[n])
         IN  IF before.tag = "nullopt" \/ v_opt.tag = "nullopt" THEN nullopt
             ELSE Some(PushDigit(before.val, v_opt.val))

\* a canonicality check of bit 128 alone
NonCanonical_bit128(acc) == LowBits(acc[3], 1) # 0

\* the canonicality check (acc[2] & 0x3u) != 0
NonCanonical(acc) == LowBits(acc[3], 2) # 0

\* a from_string that does not check the length
from_string_any_length(s) ==
    LET r == Accumulate(s, Len(s))
    IN  IF r.tag = "nullopt" THEN nullopt
        ELSE IF NonCanonical(r.val) THEN nullopt
        ELSE Some(write_big_endian(8, r.val[2]) \o write_big_endian(8, r.val[1]))

from_string(s) ==
    IF Len(s) # 26 THEN nullopt
    ELSE LET r == Accumulate(s, Len(s))
         IN  IF r.tag = "nullopt" THEN nullopt
             ELSE IF NonCanonical(r.val) THEN nullopt
             ELSE Some(write_big_endian(8, r.val[2]) \o write_big_endian(8, r.val[1]))

-----------------------------------------------------------------------------
(* std::chrono as the readable form uses it.  A millisecond count is kept   *)
(* as the pair (days since 1970-01-01, millisecond of the day), which       *)
(* determines the count days * 86400000 + msOfDay exactly; the count is     *)
(* negative iff days is.  The reps are taken to be 64 bits wide, so no      *)
(* intermediate sum overflows for years 0..9999.                            *)

MsPerDay == 24 * 60 * 60 * 1000

\* floor division of a 48-bit word by 86400000, bit by bit from bit 47 down:
\* the [days, msOfDay] of sys_ms{milliseconds{timestamp_ms()}}
RECURSIVE DivDayFrom(_, _, _, _)
DivDayFrom(w, i, q, r) ==
    IF i < 0 THEN [days |-> q, msOfDay |-> r]
    ELSE LET r2 == 2 * r + BitAt(w, i)
         IN  IF r2 >= MsPerDay THEN DivDayFrom(w, i - 1, 2 * q + 1, r2 - MsPerDay)
             ELSE DivDayFrom(w, i - 1, 2 * q, r2)

DurationOfWord(w) == DivDayFrom(w, 47, 0, 0)

\* static_cast<std::uint64_t>(dur.count()) for days >= 0: the product
\* days * 0x05265C00 plus msOfDay, in base-256 limbs, least significant first
RECURSIVE LimbsFrom(_, _, _, _, _)
LimbsFrom(days, ms, k, carry, acc) ==
    IF k > 7 THEN acc
    ELSE LET limb == CASE k = 0 -> 0 [] k = 1 -> 92 [] k = 2 -> 38 [] k = 3 -> 5
                       [] OTHER -> 0
             t == days * limb + (ms % 256) + carry
         IN  LimbsFrom(days, ms \div 256, k + 1, t \div 256, <<t % 256>> \o acc)

\* the day's midnight: the time of day is not added
WordOfDuration_midnight(days, msOfDay) == WordOfBytes(LimbsFrom(days, 0, 0, 0, <<>>))

WordOfDuration(days, msOfDay) == WordOfBytes(LimbsFrom(days, msOfDay, 0, 0, <<>>))

\* year_month_day{sys_days}: the civil date of a day number
civil_from_days(d) ==
    LET z == d + 719468
        era == z \div 146097
        doe == z - era * 146097
        yoe == (doe - doe \div 1460 + doe \div 36524 - doe \div 146096) \div 365
        doy == doe - (365 * yoe + yoe \div 4 - yoe \div 100)
        mp == (5 * doy + 2) \div 153
        m == IF mp < 10 THEN mp + 3 ELSE mp - 9
    IN  [year |-> yoe + era * 400 + (IF m <= 2 THEN 1 ELSE 0),
         month |-> m,
         day |-> doy - (153 * mp + 2) \div 5 + 1]

\* sys_days{year_month_day}: the day number of a civil date
days_from_civil(y0, m, d) ==
    LET y == IF m <= 2 THEN y0 - 1 ELSE y0
        era == y \div 400
        yoe == y - era * 400
        mp == IF m > 2 THEN m - 3 ELSE m + 9
        doy == (153 * mp + 2) \div 5 + d - 1
        doe == yoe * 365 + yoe \div 4 - yoe \div 100 + doy
    IN  era * 146097 + doe - 719468

is_leap(y) == y % 4 = 0 /\ (y % 100 # 0 \/ y % 400 = 0)

last_day_of_month(y, m) ==
    IF m = 2 THEN (IF is_leap(y) THEN 29 ELSE 28)
    ELSE IF m \in {4, 6, 9, 11} THEN 30 ELSE 31

\* a check of the month alone
ymd_ok_any_day(y, m, d) == m >= 1 /\ m <= 12

\* year_month_day::ok()
ymd_ok(y, m, d) == m >= 1 /\ m <= 12 /\ d >= 1 /\ d <= last_day_of_month(y, m)

\* the decimal digits of n, most significant first, left-padded with '0' to
\* at least width chars (std::format {:0w} and %Y %m %d %H %M %S)
RECURSIVE Decimal(_, _)
Decimal(n, width) ==
    IF n < 10 /\ width <= 1 THEN <<DigitChars[n + 1]>>
    ELSE Decimal(n \div 10, width - 1) \o <<DigitChars[(n % 10) + 1]>>

-----------------------------------------------------------------------------
(* the readable form *)

\* to_readable_string() appending the whole of to_string() instead of its
\* last 16 chars
to_readable_string_whole(data) ==
    LET tp == DurationOfWord(timestamp_ms(data))
        ymd == civil_from_days(tp.days)
        secs == tp.msOfDay \div 1000
    IN  Decimal(ymd.year, 4) \o Decimal(ymd.month, 2) \o Decimal(ymd.day, 2)
        \o <<"T">> \o Decimal(secs \div 3600, 2)
        \o Decimal((secs \div 60) % 60, 2) \o Decimal(secs % 60, 2)
        \o Decimal(tp.msOfDay % 1000, 3) \o <<"Z">> \o SubSeq(to_string(data), 1, 16)

\* to_readable_string(): "{:%Y%m%dT%H%M%S}{:03}Z" of the timestamp, then the
\* last 16 chars of to_string()
to_readable_string(data) ==
    LET tp == DurationOfWord(timestamp_ms(data))
        ymd == civil_from_days(tp.days)
        secs == tp.msOfDay \div 1000
        out == Decimal(ymd.year, 4) \o Decimal(ymd.month, 2) \o Decimal(ymd.day, 2)
               \o <<"T">> \o Decimal(secs \div 3600, 2)
               \o Decimal((secs \div 60) % 60, 2) \o Decimal(secs % 60, 2)
               \o Decimal(tp.msOfDay % 1000, 3) \o <<"Z">>
        full == to_string(data)
    IN  out \o SubSeq(full, 11, 26)

\* parse_u32(s, pos, len): std::from_chars over exactly len chars, nullopt
\* unless every one of them is a decimal digit (pos counts from 0)
RECURSIVE ParseDigits(_, _, _, _)
ParseDigits(s, i, last, v) ==
    IF i > last THEN Some(v)
    ELSE IF ~InSeq(DigitChars, s[i]) THEN nullopt
    ELSE ParseDigits(s, i + 1, last, 10 * v + (IndexOf(DigitChars, s[i]) - 1))

\* std::from_chars without the rc.ptr != last test: the digits before the
\* first other char are the value, and there must be one
RECURSIVE LeadingDigits(_, _, _, _)
LeadingDigits(s, i, last, v) ==
    IF i > last \/ ~InSeq(DigitChars, s[i]) THEN v
    ELSE LeadingDigits(s, i + 1, last, 10 * v + (IndexOf(DigitChars, s[i]) - 1))

parse_u32_prefix(s, pos, len) ==
    IF ~InSeq(DigitChars, s[pos + 1]) THEN nullopt
    ELSE Some(LeadingDigits(s, pos + 1, pos + len, 0))

parse_u32(s, pos, len) == ParseDigits(s, pos + 1, pos + len, 0)

\* std::string::replace(pos, n, str), pos counting from 0
replace(str, pos, n, with) ==
    SubSeq(str, 1, pos) \o with \o SubSeq(str, pos + n + 1, Len(str))

\* no test of the duration's sign
before_epoch_never(days, msOfDay) == FALSE

\* dur < milliseconds::zero() for dur = days * 86400000 + msOfDay, where
\* 0 <= msOfDay < 86400000
before_epoch(days, msOfDay) == days < 0

from_readable_string(s) ==
    IF Len(s) # 35 THEN nullopt
    ELSE IF s[9] # "T" \/ s[19] # "Z" THEN nullopt
    ELSE
    LET year_num == parse_u32(s, 0, 4)
        month_num == parse_u32(s, 4, 2)
        day_num == parse_u32(s, 6, 2)
        hour_num == parse_u32(s, 9, 2)
        minute_num == parse_u32(s, 11, 2)
        second_num == parse_u32(s, 13, 2)
        millis_num == parse_u32(s, 15, 3)
    IN  IF \E f \in {year_num, month_num, day_num, hour_num, minute_num,
                     second_num, millis_num} : f.tag = "nullopt"
        THEN nullopt
        ELSE IF month_num.val = 0 \/ month_num.val > 12 \/ day_num.val = 0
                \/ day_num.val > 31 \/ hour_num.val > 23 \/ minute_num.val > 59
                \/ second_num.val > 59 \/ millis_num.val > 999
        THEN nullopt
        ELSE IF ~ymd_ok(year_num.val, month_num.val, day_num.val) THEN nullopt
        ELSE
        LET days == days_from_civil(year_num.val, month_num.val, day_num.val)
            msOfDay == ((hour_num.val * 60 + minute_num.val) * 60
                        + second_num.val) * 1000 + millis_num.val
        IN  IF before_epoch(days, msOfDay) THEN nullopt
            ELSE
            LET ts == WordOfDuration(days, msOfDay)
                tmp == write_big_endian(6, ts) \o SubSeq(ZeroData, 7, 16)
                canonical == replace(to_string(tmp), 10, 16, SubSeq(s, 20, 35))
            IN  from_string(canonical)

-----------------------------------------------------------------------------
(* the generators: one set of static thread_local objects per thread *)

Threads == {1, 2}

\* generator calls per thread in a run, and in a run that also round-trips
\* every returned value through the readable form
MaxCalls == 3

MaxRoundTripCalls == 2

VARIABLES
    dummy,      \* dummy[c]: the address of salted_seed's thread_local dummy
    gen_rng,    \* gen_rng[c]: the static thread_local rng of generate()
    mono_rng,   \* mono_rng[c]: the static thread_local rng of generate_monotonic()
    last,       \* last[c]: the previously generated ULID
    last_ts,    \* last_ts[c]: its clock reading
    have_last,  \* have_last[c]
    calls,      \* calls[c]: generator calls made by thread c so far
    ret,        \* ret[c]: what the thread's latest generator call returned
    mono_prev,  \* mono_prev[c]: what generate_monotonic() returned the time before
    mono_ret,   \* mono_ret[c]: what generate_monotonic() returned last
    readable,   \* readable[c]: to_readable_string() of ret[c]
    reparsed,   \* reparsed[c]: from_readable_string() of readable[c]
    call        \* call[c]: the thread's latest generator call: which one, the
                \* ts it read from now_ms(), the bytes it drew from its rng

genVars == <<dummy, gen_rng, mono_rng, last, last_ts, have_last, calls, ret,
             mono_prev, mono_ret, readable, reparsed, call>>

\* clock readings now_ms() may return: the epoch, 2016-07-30T23:54:10.259Z,
\* 10000-01-01T00:00:00.000Z, and a reading of 2^48 ms and more
ClockReadings ==
    {U64(0),
     WordOfBytes(<<0, 0, 1, 86, 62, 58, 181, 211>>),
     WordOfBytes(<<0, 0, 230, 119, 210, 31, 220, 0>>),
     WordOfBytes(<<0, 1, 1, 86, 62, 58, 181, 211>>)}

\* the ten bytes ten calls of rng.bits_as<byte>() may return
RandomDraws ==
    {<<0, 0, 0, 0, 0, 0, 0, 0, 0, 0>>,
     <<214, 118, 76, 97, 239, 185, 147, 2, 255, 255>>,
     <<255, 255, 255, 255, 255, 255, 255, 255, 255, 255>>}

\* addresses a thread's dummy may have
Addresses ==
    {WordOfBytes(<<0, 0, 127, 42, 16, 0, 7, 56>>),
     WordOfBytes(<<0, 0, 127, 42, 24, 0, 7, 56>>)}

\* salted_seed(timestamp) in thread c
salted_seed(c, timestamp) == BitXor(timestamp, dummy[c])

\* PRNG{seed}: the engine is the stream of its seed, at position 0
PRNG(seed) == [tag |-> "some", seed |-> seed, draws |-> 0]

\* an rng that is not static: every call constructs it anew
Seeded_every_call(rng, c, ts) == PRNG(salted_seed(c, ts))

\* a static thread_local rng is constructed by the first call that reaches it
Seeded(rng, c, ts) == IF rng.tag = "unset" THEN PRNG(salted_seed(c, ts)) ELSE rng

\* n calls of rng.bits_as<byte>() advance the engine n times
Drawn(rng, n) == [rng EXCEPT !.draws = @ + n]

\* increment_big_endian(rand): from the last byte back, the first byte that
\* is not 0xFF is incremented, the 0xFF bytes behind it become 0
RECURSIVE IncrementFrom(_, _)
IncrementFrom(rand, i) ==
    IF i < 1 THEN rand
    ELSE IF rand[i] # 255 THEN [rand EXCEPT ![i] = @ + 1]
    ELSE IncrementFrom([rand EXCEPT ![i] = 0], i - 1)

\* increment_big_endian without the carry loop: only the last byte counts
increment_last_byte(rand) == [rand EXCEPT ![Len(rand)] = (@ + 1) % 256]

\* increment_big_endian that stays at all ones instead of overflowing
increment_saturating(rand) ==
    IF \A i \in 1..Len(rand) : rand[i] = 255 THEN rand
    ELSE IncrementFrom(rand, Len(rand))

increment_big_endian(rand) == IncrementFrom(rand, Len(rand))

\* the thread_local objects before any call: no two threads share a dummy
DummyLayouts ==
    {d \in [Threads -> Addresses] : \A c, e \in Threads : c # e => d[c] # d[e]}

GenInit ==
    /\ gen_rng = [c \in Threads |-> [tag |-> "unset"]]
    /\ mono_rng = [c \in Threads |-> [tag |-> "unset"]]
    /\ last = [c \in Threads |-> ZeroData]
    /\ last_ts = [c \in Threads |-> U64(0)]
    /\ have_last = [c \in Threads |-> FALSE]
    /\ calls = [c \in Threads |-> 0]
    /\ ret = [c \in Threads |-> Unset]
    /\ mono_prev = [c \in Threads |-> Unset]
    /\ mono_ret = [c \in Threads |-> Unset]
    /\ readable = [c \in Threads |-> Unset]
    /\ reparsed = [c \in Threads |-> Unset]
    /\ call = [c \in Threads |-> [op |-> "none", ts |-> U64(0), drawn |-> <<>>]]

\* a generate() that keeps its result in generate_monotonic()'s last
generate_storing_last(c, ts, r) ==
    /\ gen_rng' = [gen_rng EXCEPT ![c] = Drawn(Seeded(@, c, ts), 10)]
    /\ ret' = [ret EXCEPT ![c] = Some(write_big_endian(6, ts) \o r)]
    /\ last' = [last EXCEPT ![c] = write_big_endian(6, ts) \o r]
    /\ calls' = [calls EXCEPT ![c] = @ + 1]
    /\ readable' = [readable EXCEPT ![c] = Unset]
    /\ reparsed' = [reparsed EXCEPT ![c] = Unset]
    /\ call' = [call EXCEPT ![c] = [op |-> "generate", ts |-> ts, drawn |-> r]]
    /\ UNCHANGED <<dummy, mono_rng, last_ts, have_last, mono_prev, mono_ret>>

\* generate() in thread c, the clock reading ts, the rng returning r
generate(c, ts, r) ==
    /\ gen_rng' = [gen_rng EXCEPT ![c] = Drawn(Seeded(@, c, ts), 10)]
    /\ ret' = [ret EXCEPT ![c] = Some(write_big_endian(6, ts) \o r)]
    /\ calls' = [calls EXCEPT ![c] = @ + 1]
    /\ readable' = [readable EXCEPT ![c] = Unset]
    /\ reparsed' = [reparsed EXCEPT ![c] = Unset]
    /\ call' = [call EXCEPT ![c] = [op |-> "generate", ts |-> ts, drawn |-> r]]
    /\ UNCHANGED <<dummy, mono_rng, last, last_ts, have_last, mono_prev, mono_ret>>

\* a generate_monotonic() whose last, last_ts and have_last are static but
\* not thread_local: one object each, seen by every thread
generate_monotonic_shared(c, ts, r) ==
    /\ IF ~have_last[c] \/ WordGreater(ts, last_ts[c])
       THEN /\ last_ts' = [d \in Threads |-> ts]
            /\ last' = [d \in Threads |-> write_big_endian(6, ts) \o r]
            /\ mono_rng' = [mono_rng EXCEPT ![c] = Drawn(Seeded(@, c, ts), 10)]
            /\ have_last' = [d \in Threads |-> TRUE]
            /\ call' = [call EXCEPT ![c] =
                           [op |-> "generate_monotonic", ts |-> ts, drawn |-> r]]
       ELSE /\ last' = [d \in Threads |->
                           timestamp_bytes(last[c])
                           \o increment_big_endian(random_bytes(last[c]))]
            /\ mono_rng' = [mono_rng EXCEPT ![c] = Seeded(@, c, ts)]
            /\ call' = [call EXCEPT ![c] =
                           [op |-> "generate_monotonic", ts |-> ts, drawn |-> <<>>]]
            /\ UNCHANGED <<last_ts, have_last>>
    /\ ret' = [ret EXCEPT ![c] = Some(last'[c])]
    /\ mono_prev' = [mono_prev EXCEPT ![c] = mono_ret[c]]
    /\ mono_ret' = [mono_ret EXCEPT ![c] = Some(last'[c])]
    /\ calls' = [calls EXCEPT ![c] = @ + 1]
    /\ readable' = [readable EXCEPT ![c] = Unset]
    /\ reparsed' = [reparsed EXCEPT ![c] = Unset]
    /\ UNCHANGED <<dummy, gen_rng>>

\* generate_monotonic() in thread c, the clock reading ts, the rng returning
\* r if the fresh branch draws from it
generate_monotonic(c, ts, r) ==
    /\ IF ~have_last[c] \/ WordGreater(ts, last_ts[c])
       THEN /\ last_ts' = [last_ts EXCEPT ![c] = ts]
            /\ last' = [last EXCEPT ![c] = write_big_endian(6, ts) \o r]
            /\ mono_rng' = [mono_rng EXCEPT ![c] = Drawn(Seeded(@, c, ts), 10)]
            /\ have_last' = [have_last EXCEPT ![c] = TRUE]
            /\ call' = [call EXCEPT ![c] =
                           [op |-> "generate_monotonic", ts |-> ts, drawn |-> r]]
       ELSE /\ last' = [last EXCEPT ![c] =
                           timestamp_bytes(@) \o increment_big_endian(random_bytes(@))]
            /\ mono_rng' = [mono_rng EXCEPT ![c] = Seeded(@, c, ts)]
            /\ call' = [call EXCEPT ![c] =
                           [op |-> "generate_monotonic", ts |-> ts, drawn |-> <<>>]]
            /\ UNCHANGED <<last_ts, have_last>>
    /\ ret' = [ret EXCEPT ![c] = Some(last'[c])]
    /\ mono_prev' = [mono_prev EXCEPT ![c] = mono_ret[c]]
    /\ mono_ret' = [mono_ret EXCEPT ![c] = Some(last'[c])]
    /\ calls' = [calls EXCEPT ![c] = @ + 1]
    /\ readable' = [readable EXCEPT ![c] = Unset]
    /\ reparsed' = [reparsed EXCEPT ![c] = Unset]
    /\ UNCHANGED <<dummy, gen_rng>>

\* the caller writes the returned value in readable form ...
ToReadable(c) ==
    /\ ret[c].tag = "some"
    /\ readable[c].tag = "unset"
    /\ readable' = [readable EXCEPT ![c] = Some(to_readable_string(ret[c].val))]
    /\ UNCHANGED <<dummy, gen_rng, mono_rng, last, last_ts, have_last, calls, ret,
                   mono_prev, mono_ret, reparsed, call>>

\* ... and parses it back
FromReadable(c) ==
    /\ readable[c].tag = "some"
    /\ reparsed[c].tag = "unset"
    /\ reparsed' = [reparsed EXCEPT ![c] = from_readable_string(readable[c].val)]
    /\ UNCHANGED <<dummy, gen_rng, mono_rng, last, last_ts, have_last, calls, ret,
                   mono_prev, mono_ret, readable, call>>

-----------------------------------------------------------------------------
(* the codec applied to identifier values *)

VARIABLES
    bytesA,     \* a 16-byte array, and
    bytesB,     \* a second one
    valA,       \* from_bytes(bytesA)
    valB,       \* from_bytes(bytesB)
    txtA,       \* valA.to_string()
    txtB,       \* valB.to_string()
    rdA,        \* valA.to_readable_string()
    rdB,        \* valB.to_readable_string()
    backA,      \* from_string(txtA)
    msA,        \* valA.timestamp_ms()
    msB         \* valB.timestamp_ms()

valueVars == <<bytesA, bytesB, valA, valB, txtA, txtB, rdA, rdB, backA, msA, msB>>

\* byte arrays: all zero, all ones, the ULID of the test suite's spec
\* example, the last millisecond of 9999 and the first of 10000, and one
\* with bits set on both sides of every digit boundary
BaseValues ==
    {ZeroData,
     [i \in 1..16 |-> 255],
     <<1, 86, 62, 58, 181, 211, 214, 118, 76, 97, 239, 185, 147, 2, 189, 91>>,
     <<230, 119, 210, 31, 219, 255, 255, 255, 255, 255, 255, 255, 255, 255, 255, 255>>,
     <<230, 119, 210, 31, 220, 0, 0, 0, 0, 0, 0, 0, 0, 0, 0, 0>>,
     <<165, 90, 165, 90, 165, 90, 165, 90, 165, 90, 165, 90, 165, 90, 165, 90>>}

PatchBytes == {0, 1, 90, 128, 255}

\* a base value, or one differing from it in one byte
Neighbours(a) ==
    BaseValues \cup {[a EXCEPT ![p] = v] : p \in 1..16, v \in PatchBytes}

ValueIdle ==
    /\ valA = Unset /\ valB = Unset /\ txtA = Unset /\ txtB = Unset
    /\ rdA = Unset /\ rdB = Unset /\ backA = Unset
    /\ msA = Unset /\ msB = Unset

ValueInit ==
    /\ bytesA \in BaseValues
    /\ bytesB \in Neighbours(bytesA)
    /\ ValueIdle

DoFromBytes ==
    /\ valA.tag = "unset"
    /\ valA' = Some(from_bytes(bytesA))
    /\ valB' = Some(from_bytes(bytesB))
    /\ UNCHANGED <<bytesA, bytesB, txtA, txtB, rdA, rdB, backA, msA, msB>>

DoToString ==
    /\ valA.tag = "some" /\ txtA.tag = "unset"
    /\ txtA' = Some(to_string(valA.val))
    /\ txtB' = Some(to_string(valB.val))
    /\ UNCHANGED <<bytesA, bytesB, valA, valB, rdA, rdB, backA, msA, msB>>

DoToReadableString ==
    /\ valA.tag = "some" /\ rdA.tag = "unset"
    /\ rdA' = Some(to_readable_string(valA.val))
    /\ rdB' = Some(to_readable_string(valB.val))
    /\ UNCHANGED <<bytesA, bytesB, valA, valB, txtA, txtB, backA, msA, msB>>

DoFromString ==
    /\ txtA.tag = "some" /\ backA.tag = "unset"
    /\ backA' = from_string(txtA.val)
    /\ UNCHANGED <<bytesA, bytesB, valA, valB, txtA, txtB, rdA, rdB, msA, msB>>

DoTimestampMs ==
    /\ valA.tag = "some" /\ msA.tag = "unset"
    /\ msA' = Some(timestamp_ms(valA.val))
    /\ msB' = Some(timestamp_ms(valB.val))
    /\ UNCHANGED <<bytesA, bytesB, valA, valB, txtA, txtB, rdA, rdB, backA>>

-----------------------------------------------------------------------------
(* the codec applied to strings *)

VARIABLES
    strIn,      \* a string, and
    strAlt,     \* the same string with one char written another way
    parsedIn,   \* from_string(strIn)
    parsedAlt,  \* from_string(strAlt)
    reText,     \* parsedIn->to_string()
    reParsed    \* from_string(reText)

stringVars == <<strIn, strAlt, parsedIn, parsedAlt, reText, reParsed>>

VARIABLES
    rsIn,       \* a string in readable form
    rsOut,      \* from_readable_string(rsIn)
    rsMs        \* rsOut->timestamp_ms()

readVars == <<rsIn, rsOut, rsMs>>

VARIABLES
    outA,       \* valA.to_bytes()
    eqAB        \* valA == valB

copyVars == <<outA, eqAB>>

VARIABLES
    strAgain,   \* from_string(strIn), called a second time
    rsAgain     \* from_readable_string(rsIn), called a second time

pureVars == <<strAgain, rsAgain>>

vars == <<genVars, valueVars, stringVars, readVars, copyVars, pureVars>>

BaseStrings ==
    {[i \in 1..26 |-> "0"],
     <<"0", "1", "A", "R", "Z", "3", "N", "D", "E", "K", "T", "S", "V", "4", "R", "R", "F", "F", "Q", "6", "9", "G", "5", "F", "A", "V">>,
     <<"0", "1", "a", "r", "z", "3", "n", "d", "e", "k", "t", "s", "v", "4", "r", "r", "f", "f", "q", "6", "9", "g", "5", "f", "a", "v">>,
     <<"7", "Z", "Z", "Z", "Z", "Z", "Z", "Z", "Z", "Z", "Z", "Z", "Z", "Z", "Z", "Z", "Z", "Z", "Z", "Z", "Z", "Z", "Z", "Z", "Z", "Z">>}

\* every char that is tried at a position of a base string
InputChars ==
    {DigitChars[i] : i \in 1..10} \cup {UpperChars[i] : i \in 1..26}
    \cup {LowerChars[i] : i \in 1..26} \cup {OtherChars[i].c : i \in 1..Len(OtherChars)}

\* the positions tried: the first two digits, the digit that spans bits 60..64
\* of the value, and the last
PatchPositions == {1, 2, 14, 26}

\* the other ways to write a char that from_string is documented to accept:
\* the other case of a letter, O o for 0, I i L l for 1
Variants(c) ==
    {c}
    \cup {LowerChars[i] : i \in {j \in 1..26 : UpperChars[j] = c}}
    \cup {UpperChars[i] : i \in {j \in 1..26 : LowerChars[j] = c}}
    \cup (IF c = "0" THEN {"O", "o"} ELSE {})
    \cup (IF c = "1" THEN {"I", "i", "L", "l"} ELSE {})

\* strings of a wrong length: empty, one short, one long
WrongLength(b) == {<<>>, SubSeq(b, 1, 25), b \o <<"0">>}

StringIdle ==
    /\ parsedIn = Unset /\ parsedAlt = Unset /\ reText = Unset /\ reParsed = Unset

StringInit ==
    /\ \E b \in BaseStrings :
          \/ /\ strIn \in WrongLength(b)
             /\ strAlt = strIn
          \/ \E p \in PatchPositions, ch \in InputChars :
                /\ strIn = [b EXCEPT ![p] = ch]
                /\ strAlt \in {[strIn EXCEPT ![p] = v] : v \in Variants(ch)}
    /\ StringIdle

ParseString ==
    /\ parsedIn.tag = "unset"
    /\ parsedIn' = from_string(strIn)
    /\ parsedAlt' = from_string(strAlt)
    /\ UNCHANGED <<strIn, strAlt, reText, reParsed>>

PrintParsed ==
    /\ parsedIn.tag = "some" /\ reText.tag = "unset"
    /\ reText' = Some(to_string(parsedIn.val))
    /\ UNCHANGED <<strIn, strAlt, parsedIn, parsedAlt, reParsed>>

ParseAgain ==
    /\ reText.tag = "some" /\ reParsed.tag = "unset"
    /\ reParsed' = from_string(reText.val)
    /\ UNCHANGED <<strIn, strAlt, parsedIn, parsedAlt, reText>>

-----------------------------------------------------------------------------
(* the raw bytes of identifier values *)

CopyIdle == outA = Unset /\ eqAB = Unset

DoToBytes ==
    /\ valA.tag = "some" /\ outA.tag = "unset"
    /\ outA' = Some(to_bytes(valA.val))
    /\ eqAB' = Some(UlidEqual(valA.val, valB.val))

PureIdle == strAgain = Unset /\ rsAgain = Unset

\* from_string(strIn): static constexpr, reads its argument only
CallFromString ==
    /\ parsedIn.tag = "unset"
    /\ parsedIn' = from_string(strIn)
    /\ UNCHANGED <<strIn, strAlt, parsedAlt, reText, reParsed>>
    /\ UNCHANGED <<genVars, valueVars, readVars, copyVars, pureVars>>

\* from_string(strIn), a later call with the same argument
CallFromStringAgain ==
    /\ parsedIn.tag # "unset" /\ strAgain.tag = "unset"
    /\ strAgain' = from_string(strIn)
    /\ UNCHANGED <<genVars, valueVars, stringVars, readVars, copyVars, rsAgain>>

-----------------------------------------------------------------------------
(* the readable codec applied to strings *)

\* "YYYYMMDDThhmmssmmmZ" of the seven numbers
Stamp(y, mo, d, h, mi, sec, ms) ==
    Decimal(y, 4) \o Decimal(mo, 2) \o Decimal(d, 2) \o <<"T">> \o Decimal(h, 2)
    \o Decimal(mi, 2) \o Decimal(sec, 2) \o Decimal(ms, 3) \o <<"Z">>

\* 16-char tails: all zero, the tail of the test suite's spec example, one
\* with aliases and lowercase letters, the largest
ReadableTails ==
    {[i \in 1..16 |-> "0"],
     <<"T", "S", "V", "4", "R", "R", "F", "F", "Q", "6", "9", "G", "5", "F", "A", "V">>,
     <<"o", "I", "l", "L", "i", "O", "z", "f", "q", "6", "9", "g", "5", "f", "a", "v">>,
     [i \in 1..16 |-> "Z"]}

\* years: 0, the years around the epoch, leap years by each clause of the
\* 4/100/400 rule and their neighbours, the last four-digit year
Years == {0, 1900, 1969, 1970, 1972, 2000, 2016, 2023, 2100, 9999}

Months == {0, 1, 2, 4, 12, 13}

Days == {0, 1, 28, 29, 30, 31, 32}

\* dates, valid or not, at the first and the last millisecond of the day
DateInputs ==
    {Stamp(y, mo, d, t[1], t[2], t[3], t[4]) :
        y \in Years, mo \in Months, d \in Days,
        t \in {<<0, 0, 0, 0>>, <<23, 59, 59, 999>>}}

\* times of day, valid or not, on the epoch's day and on 2016-07-30
TimeInputs ==
    {Stamp(dt[1], dt[2], dt[3], h, mi, sec, ms) :
        dt \in {<<1970, 1, 1>>, <<2016, 7, 30>>},
        h \in {0, 23, 24}, mi \in {0, 54, 60}, sec \in {0, 10, 60}, ms \in {0, 259, 999}}

\* chars written over one char of a well-formed string
ShapeChars == {"5", "T", "Z", "-", " ", "U", "l", "A", "/", ":"}

ShapeBases ==
    {Stamp(1970, 1, 1, 0, 0, 0, 0) \o [i \in 1..16 |-> "0"],
     Stamp(2016, 7, 30, 23, 54, 10, 259)
       \o <<"T", "S", "V", "4", "R", "R", "F", "F", "Q", "6", "9", "G", "5", "F", "A", "V">>}

ShapeInputs ==
    {[b EXCEPT ![p] = ch] : b \in ShapeBases, p \in 1..35, ch \in ShapeChars}
    \cup UNION {{<<>>, SubSeq(b, 1, 19), SubSeq(b, 1, 34), b \o <<"0">>} : b \in ShapeBases}

ReadIdle == rsOut = Unset /\ rsMs = Unset

ReadInit ==
    /\ \/ \E st \in DateInputs \cup TimeInputs, tl \in ReadableTails : rsIn = st \o tl
       \/ rsIn \in ShapeInputs
    /\ ReadIdle

ParseReadable ==
    /\ rsOut.tag = "unset"
    /\ rsOut' = from_readable_string(rsIn)
    /\ UNCHANGED <<rsIn, rsMs>>

StampOfParsed ==
    /\ rsOut.tag = "some" /\ rsMs.tag = "unset"
    /\ rsMs' = Some(timestamp_ms(rsOut.val))
    /\ UNCHANGED <<rsIn, rsOut>>

\* from_readable_string(rsIn): static, reads its argument only
CallFromReadableString ==
    /\ rsOut.tag = "unset"
    /\ rsOut' = from_readable_string(rsIn)
    /\ UNCHANGED <<rsIn, rsMs>>
    /\ UNCHANGED <<genVars, valueVars, stringVars, copyVars, pureVars>>

\* a from_readable_string() that hands what it parsed to the monotonic
\* generator as its last identifier
CallFromReadableStringAgain_priming ==
    /\ rsOut.tag # "unset" /\ rsAgain.tag = "unset"
    /\ rsAgain' = from_readable_string(rsIn)
    /\ IF rsAgain'.tag = "some"
       THEN /\ last' = [last EXCEPT ![1] = rsAgain'.val]
            /\ last_ts' = [last_ts EXCEPT ![1] = timestamp_ms(rsAgain'.val)]
            /\ have_last' = [have_last EXCEPT ![1] = TRUE]
       ELSE UNCHANGED <<last, last_ts, have_last>>
    /\ UNCHANGED <<dummy, gen_rng, mono_rng, calls, ret, mono_ret, mono_prev,
                   readable, reparsed, call>>
    /\ UNCHANGED <<valueVars, stringVars, readVars, copyVars, strAgain>>

\* from_readable_string(rsIn), a later call with the same argument
CallFromReadableStringAgain ==
    /\ rsOut.tag # "unset" /\ rsAgain.tag = "unset"
    /\ rsAgain' = from_readable_string(rsIn)
    /\ UNCHANGED <<genVars, valueVars, stringVars, readVars, copyVars, strAgain>>

-----------------------------------------------------------------------------
(* specifications *)

\* one thread calling the generators
Init ==
    /\ dummy \in DummyLayouts
    /\ GenInit
    /\ bytesA = ZeroData /\ bytesB = ZeroData /\ ValueIdle
    /\ strIn = <<>> /\ strAlt = <<>> /\ StringIdle
    /\ rsIn = <<>> /\ ReadIdle
    /\ CopyIdle /\ PureIdle

Next ==
    \/ \E ts \in ClockReadings, r \in RandomDraws :
          /\ calls[1] < MaxCalls
          /\ generate(1, ts, r)
          /\ UNCHANGED <<valueVars, stringVars, readVars, copyVars, pureVars>>
    \/ \E ts \in ClockReadings, r \in RandomDraws :
          /\ calls[1] < MaxCalls
          /\ generate_monotonic(1, ts, r)
          /\ UNCHANGED <<valueVars, stringVars, readVars, copyVars, pureVars>>

Spec == Init /\ [][Next]_vars

\* one thread calling the generators and round-tripping what they return
\* through the readable form
RoundTripNext ==
    \/ \E ts \in ClockReadings, r \in RandomDraws :
          /\ calls[1] < MaxRoundTripCalls
          /\ generate(1, ts, r)
          /\ UNCHANGED <<valueVars, stringVars, readVars, copyVars, pureVars>>
    \/ \E ts \in ClockReadings, r \in RandomDraws :
          /\ calls[1] < MaxRoundTripCalls
          /\ generate_monotonic(1, ts, r)
          /\ UNCHANGED <<valueVars, stringVars, readVars, copyVars, pureVars>>
    \/ ToReadable(1) /\ UNCHANGED <<valueVars, stringVars, readVars, copyVars, pureVars>>
    \/ FromReadable(1) /\ UNCHANGED <<valueVars, stringVars, readVars, copyVars, pureVars>>

RoundTripSpec == Init /\ [][RoundTripNext]_vars

\* generator calls per thread in a run of several threads
MaxThreadCalls == 2

\* clock readings of such a run: 2016-07-30T23:54:10.259Z and the reading
\* 134217728 ms before it
ThreadClockReadings ==
    {WordOfBytes(<<0, 0, 1, 86, 62, 58, 181, 211>>),
     WordOfBytes(<<0, 0, 1, 86, 54, 58, 181, 211>>)}

ThreadDraws ==
    {<<0, 0, 0, 0, 0, 0, 0, 0, 0, 0>>,
     <<255, 255, 255, 255, 255, 255, 255, 255, 255, 255>>}

\* the threads calling the generators in any interleaving
ThreadsNext ==
    \/ \E c \in Threads, ts \in ThreadClockReadings, r \in ThreadDraws :
          /\ calls[c] < MaxThreadCalls
          /\ generate(c, ts, r)
          /\ UNCHANGED <<valueVars, stringVars, readVars, copyVars, pureVars>>
    \/ \E c \in Threads, ts \in ThreadClockReadings, r \in ThreadDraws :
          /\ calls[c] < MaxThreadCalls
          /\ generate_monotonic(c, ts, r)
          /\ UNCHANGED <<valueVars, stringVars, readVars, copyVars, pureVars>>

ThreadsSpec == Init /\ [][ThreadsNext]_vars

\* generator calls of a thread that also parses strings
MaxPureCalls == 2

\* a canonical string, one with a char outside the alphabet and one too short
PureStrings ==
    {<<"0", "1", "A", "R", "Z", "3", "N", "D", "E", "K", "T", "S", "V", "4", "R", "R", "F", "F", "Q", "6", "9", "G", "5", "F", "A", "V">>,
     <<"0", "1", "A", "R", "Z", "3", "N", "D", "E", "K", "T", "S", "V", "4", "R", "R", "F", "F", "Q", "6", "9", "G", "5", "F", "A", "U">>,
     <<"0", "1", "A", "R", "Z">>}

\* a readable string, one with month 13 and one before the epoch
PureReadables ==
    {Stamp(dt[1], dt[2], dt[3], 23, 54, 10, 259)
       \o <<"T", "S", "V", "4", "R", "R", "F", "F", "Q", "6", "9", "G", "5", "F", "A", "V">> :
        dt \in {<<2016, 7, 30>>, <<2016, 13, 30>>, <<1969, 12, 31>>}}

PureSpecInit ==
    /\ dummy = CHOOSE d \in DummyLayouts : TRUE
    /\ GenInit
    /\ bytesA = ZeroData /\ bytesB = ZeroData /\ ValueIdle
    /\ strIn \in PureStrings /\ strAlt = strIn /\ StringIdle
    /\ rsIn \in PureReadables /\ ReadIdle
    /\ CopyIdle /\ PureIdle

\* a thread parsing the two strings, twice each, at any point between its
\* generator calls
PureNext ==
    \/ \E ts \in ThreadClockReadings, r \in ThreadDraws :
          /\ calls[1] < MaxPureCalls
          /\ generate(1, ts, r)
          /\ UNCHANGED <<valueVars, stringVars, readVars, copyVars, pureVars>>
    \/ \E ts \in ThreadClockReadings, r \in ThreadDraws :
          /\ calls[1] < MaxPureCalls
          /\ generate_monotonic(1, ts, r)
          /\ UNCHANGED <<valueVars, stringVars, readVars, copyVars, pureVars>>
    \/ CallFromString
    \/ CallFromStringAgain
    \/ CallFromReadableString
    \/ CallFromReadableStringAgain

PureSpec == PureSpecInit /\ [][PureNext]_vars

\* the codec applied to pairs of byte arrays
ValueSpecInit ==
    /\ dummy = CHOOSE d \in DummyLayouts : TRUE
    /\ GenInit
    /\ ValueInit
    /\ strIn = <<>> /\ strAlt = <<>> /\ StringIdle
    /\ rsIn = <<>> /\ ReadIdle
    /\ CopyIdle /\ PureIdle

ValueNext ==
    \/ DoFromBytes /\ UNCHANGED <<genVars, stringVars, readVars, copyVars, pureVars>>
    \/ DoToString /\ UNCHANGED <<genVars, stringVars, readVars, copyVars, pureVars>>
    \/ DoToReadableString /\ UNCHANGED <<genVars, stringVars, readVars, copyVars, pureVars>>
    \/ DoFromString /\ UNCHANGED <<genVars, stringVars, readVars, copyVars, pureVars>>
    \/ DoTimestampMs /\ UNCHANGED <<genVars, stringVars, readVars, copyVars, pureVars>>

ValueSpec == ValueSpecInit /\ [][ValueNext]_vars

\* from_bytes, to_bytes and == applied to pairs of byte arrays
BytesNext ==
    \/ DoFromBytes /\ UNCHANGED <<genVars, stringVars, readVars, copyVars, pureVars>>
    \/ DoToBytes /\ UNCHANGED <<genVars, valueVars, stringVars, readVars, pureVars>>

BytesSpec == ValueSpecInit /\ [][BytesNext]_vars

\* the codec applied to strings
StringSpecInit ==
    /\ dummy = CHOOSE d \in DummyLayouts : TRUE
    /\ GenInit
    /\ bytesA = ZeroData /\ bytesB = ZeroData /\ ValueIdle
    /\ StringInit
    /\ rsIn = <<>> /\ ReadIdle
    /\ CopyIdle /\ PureIdle

StringNext ==
    \/ ParseString /\ UNCHANGED <<genVars, valueVars, readVars, copyVars, pureVars>>
    \/ PrintParsed /\ UNCHANGED <<genVars, valueVars, readVars, copyVars, pureVars>>
    \/ ParseAgain /\ UNCHANGED <<genVars, valueVars, readVars, copyVars, pureVars>>

StringSpec == StringSpecInit /\ [][StringNext]_vars

\* the readable codec applied to strings
ReadableSpecInit ==
    /\ dummy = CHOOSE d \in DummyLayouts : TRUE
    /\ GenInit
    /\ bytesA = ZeroData /\ bytesB = ZeroData /\ ValueIdle
    /\ strIn = <<>> /\ strAlt = <<>> /\ StringIdle
    /\ ReadInit
    /\ CopyIdle /\ PureIdle

ReadableNext ==
    \/ ParseReadable /\ UNCHANGED <<genVars, valueVars, stringVars, copyVars, pureVars>>
    \/ StampOfParsed /\ UNCHANGED <<genVars, valueVars, stringVars, copyVars, pureVars>>

ReadableSpec == ReadableSpecInit /\ [][ReadableNext]_vars

-----------------------------------------------------------------------------
(* properties *)

\* the 32 Crockford symbols, and every char the decoder is documented to accept
CrockfordSymbols ==
    {"0", "1", "2", "3", "4", "5", "6", "7", "8", "9", "A", "B", "C", "D", "E", "F",
     "G", "H", "J", "K", "M", "N", "P", "Q", "R", "S", "T", "V", "W", "X", "Y", "Z"}

AcceptedChars ==
    CrockfordSymbols
    \cup {"a", "b", "c", "d", "e", "f", "g", "h", "j", "k", "m", "n", "p", "q", "r",
          "s", "t", "v", "w", "x", "y", "z"}
    \cup {"O", "o", "I", "i", "L", "l"}

AllAccepted(s) == \A i \in 1..Len(s) : s[i] \in AcceptedChars

\* the chars that stand for a first digit of 0..7
LowFirstChars == {"0", "O", "o", "1", "I", "i", "L", "l", "2", "3", "4", "5", "6", "7"}

\* a char in canonical form: O o -> 0, I i L l -> 1, lowercase -> uppercase
CanonicalChar(c) ==
    IF c \in {"O", "o"} THEN "0"
    ELSE IF c \in {"I", "i", "L", "l"} THEN "1"
    ELSE IF InSeq(LowerChars, c) THEN UpperChars[IndexOf(LowerChars, c)]
    ELSE c

Canonical(s) == [i \in 1..Len(s) |-> CanonicalChar(s[i])]

\* C1: in every thread, each identifier generate_monotonic() returns is
\* strictly greater than the one its preceding call in that thread returned,
\* whatever the clock readings and the random bytes drawn (a run makes at
\* most MaxCalls calls, far fewer than 2^80 in a millisecond)
C1_StrictlyIncreasing ==
    \A c \in Threads :
        mono_prev[c].tag = "some" => UlidLess(mono_prev[c].val, mono_ret[c].val)

\* C2: a < b in the 16-byte ordering iff to_string(a) < to_string(b) as strings
C2_StringOrder ==
    txtA.tag = "some" =>
        (UlidLess(valA.val, valB.val) <=> StrLess(txtA.val, txtB.val))

\* two values that differ in their last byte only, encoded
C2_Witness ==
    /\ txtA.tag = "some"
    /\ UlidLess(valA.val, valB.val)
    /\ \A i \in 1..15 : valA.val[i] = valB.val[i]

\* C3: a < b in the 16-byte ordering iff to_readable_string(a) <
\* to_readable_string(b) as strings
C3_ReadableOrder ==
    rdA.tag = "some" =>
        (UlidLess(valA.val, valB.val) <=> StrLess(rdA.val, rdB.val))

\* C4: from_string(to_string(from_bytes(b))) is present and its bytes are b
C4_BytesRoundTrip ==
    backA.tag # "unset" => backA.tag = "some" /\ backA.val = bytesA

\* the round trip of an array with all 128 bits set
C4_Witness ==
    /\ backA.tag = "some"
    /\ \A i \in 1..16 : bytesA[i] = 255

\* C5: for every value v a generator returned,
\* from_readable_string(to_readable_string(v)) is present and equals v
C5_ReadableRoundTrip ==
    \A c \in Threads :
        reparsed[c].tag # "unset" =>
            reparsed[c].tag = "some" /\ reparsed[c].val = ret[c].val

\* C6: to_string() returns 26 chars, each a Crockford symbol, the first one
\* of '0'..'7'
C6_CanonicalShape ==
    txtA.tag = "some" =>
        \A t \in {txtA.val, txtB.val} :
            /\ Len(t) = 26
            /\ \A i \in 1..Len(t) : t[i] \in CrockfordSymbols
            /\ t[1] \in {"0", "1", "2", "3", "4", "5", "6", "7"}

\* the encoding of a value whose first byte has its top bit set and of one
\* whose last digit is not '0'
C6_Witness ==
    /\ txtA.tag = "some"
    /\ valA.val[1] >= 128
    /\ valB.val[16] % 32 # 0

\* C7: from_string returns nullopt for every input whose length is not 26 and
\* for every input with a char outside the accepted set
C7_Rejects ==
    (parsedIn.tag # "unset" /\ (Len(strIn) # 26 \/ ~AllAccepted(strIn)))
        => parsedIn.tag = "nullopt"

\* a 26-char string with a 'U' in it, rejected
C7_Witness ==
    /\ parsedIn.tag = "nullopt"
    /\ Len(strIn) = 26
    /\ \E i \in 1..26 : strIn[i] = "U"

\* C8: a 26-char string of accepted chars is rejected iff its first char
\* stands for a digit of 8 or more
C8_HighBits ==
    (parsedIn.tag # "unset" /\ Len(strIn) = 26 /\ AllAccepted(strIn))
        => (parsedIn.tag = "nullopt" <=> strIn[1] \notin LowFirstChars)

\* a string of accepted chars rejected for its first char 'G' (bit 129 only)
C8_Witness ==
    /\ parsedIn.tag = "nullopt"
    /\ Len(strIn) = 26
    /\ AllAccepted(strIn)
    /\ strIn[1] = "G"

\* C9: an accepted string with one char replaced by its other case, a '0' by
\* 'O' or 'o', or a '1' by 'I', 'i', 'L' or 'l' is accepted too and decodes
\* to the same value
C9_Aliases ==
    parsedIn.tag = "some" => parsedAlt = parsedIn

\* an accepted string with a '1' written as 'l'
C9_Witness ==
    /\ parsedIn.tag = "some"
    /\ \E p \in 1..26 : strIn[p] = "1" /\ strAlt[p] = "l"

\* C10: to_string(from_string(s)) is s in canonical form, and parsing and
\* printing that again gives the same string
C10_Canonical ==
    /\ reText.tag = "some" => reText.val = Canonical(strIn)
    /\ reParsed.tag # "unset" =>
          reParsed.tag = "some" /\ to_string(reParsed.val) = reText.val

\* a string that is not in canonical form, parsed, printed and parsed again
C10_Witness ==
    /\ reParsed.tag = "some"
    /\ strIn # Canonical(strIn)
    /\ \E i \in 1..26 : strIn[i] \in {"O", "o", "I", "i", "L", "l"}

\* b is a plus 1, both read as 80-bit big-endian counters
PlusOne(a, b) ==
    \/ /\ \A i \in 1..10 : a[i] = 255
       /\ \A i \in 1..10 : b[i] = 0
    \/ \E k \in 1..10 :
          /\ a[k] # 255 /\ b[k] = a[k] + 1
          /\ \A i \in 1..(k - 1) : b[i] = a[i]
          /\ \A i \in (k + 1)..10 : a[i] = 255 /\ b[i] = 0

\* this step is a call of generate_monotonic() in thread c
MonoCall(c) == calls'[c] = calls[c] + 1 /\ call'[c].op = "generate_monotonic"

\* ... made when the engine is primed and the clock reads t <= last_ts
IncrementCase(c) ==
    MonoCall(c) /\ have_last[c] /\ ~WordGreater(call'[c].ts, last_ts[c])

\* ... made when the engine is uninitialized or the clock reads t > last_ts
FreshCase(c) ==
    MonoCall(c) /\ (~have_last[c] \/ WordGreater(call'[c].ts, last_ts[c]))

\* C11: a generate_monotonic() call made when the engine is primed and the
\* clock reads t <= last_ts returns the previous identifier's timestamp
\* field, the previous randomness plus 1 as an 80-bit big-endian counter,
\* and leaves last_ts as it was
C11_IncrementBranch ==
    [][\A c \in Threads :
          IncrementCase(c) =>
              /\ mono_ret'[c].tag = "some"
              /\ timestamp_bytes(mono_ret'[c].val) = timestamp_bytes(mono_ret[c].val)
              /\ PlusOne(random_bytes(mono_ret[c].val), random_bytes(mono_ret'[c].val))
              /\ last_ts'[c] = last_ts[c]]_vars

\* a call that read a clock behind last_ts and returned the old timestamp
\* with the randomness one higher, a carry into the ninth byte included
C11_Witness ==
    /\ call[1].op = "generate_monotonic"
    /\ mono_prev[1].tag = "some"
    /\ WordLess(call[1].ts, last_ts[1])
    /\ timestamp_bytes(mono_ret[1].val) = timestamp_bytes(mono_prev[1].val)
    /\ timestamp_bytes(mono_ret[1].val) # write_big_endian(6, call[1].ts)
    /\ random_bytes(mono_prev[1].val) = <<214, 118, 76, 97, 239, 185, 147, 2, 255, 255>>
    /\ random_bytes(mono_ret[1].val) = <<214, 118, 76, 97, 239, 185, 147, 3, 0, 0>>

\* C12: a generate_monotonic() call made when the engine is uninitialized or
\* the clock reads t > last_ts returns an identifier whose timestamp_ms() is
\* t and whose randomness is the ten bytes it drew from its rng, stores t as
\* last_ts and leaves the engine primed; a primed engine stays primed
C12_FreshBranch ==
    [][\A c \in Threads :
          /\ have_last[c] => have_last'[c]
          /\ FreshCase(c) =>
                /\ mono_ret'[c].tag = "some"
                /\ timestamp_ms(mono_ret'[c].val) = call'[c].ts
                /\ Len(call'[c].drawn) = 10
                /\ random_bytes(mono_ret'[c].val) = call'[c].drawn
                /\ mono_rng'[c].draws =
                      (IF mono_rng[c].tag = "unset" THEN 0 ELSE mono_rng[c].draws) + 10
                /\ last_ts'[c] = call'[c].ts
                /\ have_last'[c]]_vars

\* C13: a generate_monotonic() call that takes the increment branch with the
\* stored randomness all ones returns a value whose randomness is all zero
\* and whose six timestamp bytes are the stored ones
C13_Wrap ==
    [][\A c \in Threads :
          (IncrementCase(c) /\ \A i \in 1..10 : random_bytes(last[c])[i] = 255) =>
              /\ ret'[c].tag = "some"
              /\ ret'[c] = mono_ret'[c]
              /\ \A i \in 1..10 : random_bytes(ret'[c].val)[i] = 0
              /\ timestamp_bytes(ret'[c].val) = timestamp_bytes(last[c])]_vars

\* the call after one that returned randomness all ones, in the same
\* millisecond of 2016
C13_Witness ==
    /\ call[1].op = "generate_monotonic"
    /\ call[1].drawn = <<>>
    /\ mono_prev[1].tag = "some"
    /\ \A i \in 1..10 : random_bytes(mono_prev[1].val)[i] = 255
    /\ \A i \in 1..10 : random_bytes(mono_ret[1].val)[i] = 0
    /\ timestamp_bytes(mono_ret[1].val) = <<1, 86, 62, 58, 181, 211>>

\* the decimal digits
Digits == {"0", "1", "2", "3", "4", "5", "6", "7", "8", "9"}

\* C14: to_readable_string() returns exactly 35 chars: digits at indices
\* 0-7, 'T' at 8, digits at 9-17, 'Z' at 18, Crockford symbols at 19-34
C14_ReadableShape ==
    rdA.tag = "some" =>
        \A t \in {rdA.val, rdB.val} :
            /\ Len(t) = 35
            /\ \A i \in 1..8 : t[i] \in Digits
            /\ t[9] = "T"
            /\ \A i \in 10..18 : t[i] \in Digits
            /\ t[19] = "Z"
            /\ \A i \in 20..35 : t[i] \in CrockfordSymbols

\* the last n chars of a string
LastChars(t, n) == SubSeq(t, Len(t) - n + 1, Len(t))

\* C15: the last 16 chars of to_readable_string() are the last 16 chars of
\* to_string(); two values have the same 16 chars iff they have the same
\* randomness, and the same first 10 chars of to_string() iff they have the
\* same timestamp
C15_Tail ==
    (rdA.tag = "some" /\ txtA.tag = "some") =>
        /\ LastChars(rdA.val, 16) = LastChars(txtA.val, 16)
        /\ LastChars(rdB.val, 16) = LastChars(txtB.val, 16)
        /\ (random_bytes(valA.val) = random_bytes(valB.val))
              <=> (LastChars(rdA.val, 16) = LastChars(rdB.val, 16))
        /\ (timestamp_bytes(valA.val) = timestamp_bytes(valB.val))
              <=> (SubSeq(txtA.val, 1, 10) = SubSeq(txtB.val, 1, 10))

\* two values with the same randomness and timestamps that differ in their
\* last bit, next to the randomness, both printed both ways
C15_Witness ==
    /\ rdA.tag = "some" /\ txtA.tag = "some"
    /\ random_bytes(valA.val) = random_bytes(valB.val)
    /\ valA.val[6] = 211 /\ valB.val[6] = 90
    /\ LastChars(rdA.val, 16) = LastChars(rdB.val, 16)
    /\ rdA.val # rdB.val

\* C20: timestamp_ms() is the unsigned big-endian integer of bytes 0..5, is
\* below 2^48, and is the same for two values with the same bytes 0..5
C20_TimestampMs ==
    msA.tag = "some" =>
        /\ \A p \in {<<valA.val, msA.val>>, <<valB.val, msB.val>>} :
              /\ p[2][1] = 256 * p[1][5] + p[1][6]
              /\ p[2][2] = 256 * p[1][3] + p[1][4]
              /\ p[2][3] = 256 * p[1][1] + p[1][2]
              /\ p[2][4] = 0
        /\ timestamp_bytes(valA.val) = timestamp_bytes(valB.val) => msA.val = msB.val

\* the largest 48-bit timestamp, read from two values that differ in a
\* randomness byte
C20_Witness ==
    /\ msA.tag = "some"
    /\ \A i \in 1..6 : valA.val[i] = 255
    /\ random_bytes(valA.val) # random_bytes(valB.val)
    /\ msA.val = <<65535, 65535, 65535, 0>>
    /\ msB.val = msA.val

\* the number written in decimal at positions i..j of s
RECURSIVE Number(_, _, _)
Number(s, i, j) ==
    IF i > j THEN 0
    ELSE 10 * Number(s, i, j - 1) + (CHOOSE v \in 0..9 : DigitChars[v + 1] = s[j])

\* the seven numeric fields of a readable string
RYear(s) == Number(s, 1, 4)

RMonth(s) == Number(s, 5, 6)

RDay(s) == Number(s, 7, 8)

RHour(s) == Number(s, 10, 11)

RMinute(s) == Number(s, 12, 13)

RSecond(s) == Number(s, 14, 15)

RMillis(s) == Number(s, 16, 18)

\* 35 chars, 'T' and 'Z' in place, digits in the numeric fields, accepted
\* Crockford chars in the tail
WellShaped(s) ==
    /\ Len(s) = 35
    /\ s[9] = "T" /\ s[19] = "Z"
    /\ \A i \in (1..8) \cup (10..18) : s[i] \in Digits
    /\ \A i \in 20..35 : s[i] \in AcceptedChars

\* the Gregorian calendar
GregorianLeap(y) == (y % 4 = 0 /\ y % 100 # 0) \/ y % 400 = 0

DaysInMonth(y, m) ==
    CASE m \in {1, 3, 5, 7, 8, 10, 12} -> 31
      [] m \in {4, 6, 9, 11} -> 30
      [] m = 2 -> IF GregorianLeap(y) THEN 29 ELSE 28

\* a field of a well-shaped string that is no month, day of that month,
\* hour, minute or second
OutOfRange(s) ==
    \/ RMonth(s) \notin 1..12
    \/ RDay(s) = 0 \/ RDay(s) > 31
    \/ RMonth(s) \in 1..12 /\ RDay(s) > DaysInMonth(RYear(s), RMonth(s))
    \/ RHour(s) > 23 \/ RMinute(s) > 59 \/ RSecond(s) > 59

\* C16: from_readable_string returns nullopt for every input whose length is
\* not 35, whose char at index 8 is not 'T' or at index 18 not 'Z', that has
\* a non-digit in a numeric field, or a char outside the accepted set in its
\* 16-char tail
C16_RejectsMalformed ==
    (rsOut.tag # "unset" /\ ~WellShaped(rsIn)) => rsOut.tag = "nullopt"

\* a 35-char string whose only flaw is a '/' as the last millisecond digit
C16_Witness ==
    /\ rsOut.tag = "nullopt"
    /\ Len(rsIn) = 35
    /\ rsIn[18] = "/"
    /\ WellShaped([rsIn EXCEPT ![18] = "9"])
    /\ ~OutOfRange([rsIn EXCEPT ![18] = "9"])
    /\ RYear(rsIn) = 2016

\* C17: from_readable_string returns nullopt for every well-shaped input
\* whose month is outside 1..12, whose day is 0, above 31 or not a day of
\* that month in that year, whose hour is above 23, or whose minute or
\* second is above 59
C17_RejectsOutOfRange ==
    (rsOut.tag # "unset" /\ WellShaped(rsIn) /\ OutOfRange(rsIn))
        => rsOut.tag = "nullopt"

\* 29 February 2100, a year that the 100-year clause makes a common year
C17_Witness ==
    /\ rsOut.tag = "nullopt"
    /\ WellShaped(rsIn)
    /\ RYear(rsIn) = 2100 /\ RMonth(rsIn) = 2 /\ RDay(rsIn) = 29
    /\ RHour(rsIn) = 0 /\ RMinute(rsIn) = 0 /\ RSecond(rsIn) = 0

\* C18: from_readable_string returns nullopt for every well-shaped input of
\* a year 0000 to 1969, and accepts 19700101T000000000Z with a valid tail,
\* giving timestamp 0
C18_Epoch ==
    rsOut.tag # "unset" =>
        /\ (WellShaped(rsIn) /\ RYear(rsIn) < 1970) => rsOut.tag = "nullopt"
        /\ (WellShaped(rsIn) /\ SubSeq(rsIn, 1, 19) = Stamp(1970, 1, 1, 0, 0, 0, 0)) =>
              /\ rsOut.tag = "some"
              /\ timestamp_bytes(rsOut.val) = <<0, 0, 0, 0, 0, 0>>
              /\ rsMs.tag = "some" => rsMs.val = <<0, 0, 0, 0>>

\* the last millisecond before the epoch, a valid date and time, rejected
C18_Witness ==
    /\ rsOut.tag = "nullopt"
    /\ WellShaped(rsIn) /\ ~OutOfRange(rsIn)
    /\ SubSeq(rsIn, 1, 19) = Stamp(1969, 12, 31, 23, 59, 59, 999)

\* days from 1970-01-01 to the date y-m-d, counted by years and months
LeapYearsBefore(y) == (y - 1) \div 4 - (y - 1) \div 100 + (y - 1) \div 400

RECURSIVE DaysBeforeMonth(_, _)
DaysBeforeMonth(y, m) ==
    IF m <= 1 THEN 0 ELSE DaysBeforeMonth(y, m - 1) + DaysInMonth(y, m - 1)

EpochDay(y, m, d) ==
    365 * (y - 1970) + LeapYearsBefore(y) - LeapYearsBefore(1970)
    + DaysBeforeMonth(y, m) + d - 1

\* the base-32 value of a char, aliases and lowercase included
DigitValue(c) == CHOOSE v \in 0..31 : ENCODING[v + 1] = CanonicalChar(c)

\* bit k of 80, counted from the most significant, of the 16-char tail of s
\* and of ten bytes
TailBit(s, k) == (DigitValue(s[20 + (k \div 5)]) \div Pow2(4 - (k % 5))) % 2

ByteBit(b, k) == (b[(k \div 8) + 1] \div Pow2(7 - (k % 8))) % 2

\* C19: for every string from_readable_string accepts, the result's
\* timestamp_ms() is the number of milliseconds from the epoch to the date
\* and time written in the first 19 chars, and its randomness is the base-32
\* value of the 16-char tail
C19_ParsedValue ==
    /\ rsOut.tag = "some" =>
          \A k \in 0..79 : ByteBit(random_bytes(rsOut.val), k) = TailBit(rsIn, k)
    /\ rsMs.tag = "some" =>
          DurationOfWord(rsMs.val) =
              [days |-> EpochDay(RYear(rsIn), RMonth(rsIn), RDay(rsIn)),
               msOfDay |-> ((RHour(rsIn) * 60 + RMinute(rsIn)) * 60
                            + RSecond(rsIn)) * 1000 + RMillis(rsIn)]

\* 2016-07-30T23:54:10.259Z with a tail written in aliases and lowercase
C19_Witness ==
    /\ rsMs.tag = "some"
    /\ SubSeq(rsIn, 1, 19) = Stamp(2016, 7, 30, 23, 54, 10, 259)
    /\ SubSeq(rsIn, 20, 25) = <<"o", "I", "l", "L", "i", "O">>
    /\ rsMs.val = WordOfBytes(<<0, 0, 1, 86, 62, 58, 181, 211>>)
    /\ random_bytes(rsOut.val) = <<0, 66, 16, 131, 239, 185, 147, 2, 189, 91>>

\* C21: to_bytes(from_bytes(b)) is b, byte for byte in the same order, and
\* two values compare equal iff they were built from equal byte arrays
C21_BytesCopy ==
    outA.tag = "some" =>
        /\ Len(outA.val) = 16
        /\ \A i \in 1..16 : outA.val[i] = bytesA[i]
        /\ eqAB.val <=> (bytesA = bytesB)

\* the test suite's spec example built twice, copied out and compared
C21_Witness ==
    /\ outA.tag = "some"
    /\ bytesA = <<1, 86, 62, 58, 181, 211, 214, 118, 76, 97, 239, 185, 147, 2, 189, 91>>
    /\ bytesB = bytesA
    /\ eqAB.val

\* bit j of the 16 bytes read as the big-endian integer N, bit 0 the least
\* significant; N has no bits above 127
BitOfN(data, j) == IF j > 127 THEN 0 ELSE (data[16 - (j \div 8)] \div Pow2(j % 8)) % 2

\* floor(N / 32^(25-i)) mod 32
DigitOfN(data, i) ==
    LET low == 5 * (25 - i)
    IN  BitOfN(data, low) + 2 * BitOfN(data, low + 1) + 4 * BitOfN(data, low + 2)
        + 8 * BitOfN(data, low + 3) + 16 * BitOfN(data, low + 4)

\* C26: char i of to_string() is the alphabet symbol for
\* floor(N / 32^(25-i)) mod 32, for every i in 0..25
C26_Digits ==
    txtA.tag = "some" =>
        \A p \in {<<valA.val, txtA.val>>, <<valB.val, txtB.val>>} :
            \A i \in 0..25 : p[2][i + 1] = ENCODING[DigitOfN(p[1], i) + 1]

\* a value printed whose digit 13, the one that spans the two 64-bit words,
\* has bits from both, and whose digits 0, 12 and 25 are not zero
C26_Witness ==
    /\ txtA.tag = "some"
    /\ valA.val[8] % 2 = 1 /\ valA.val[9] >= 128
    /\ txtA.val[14] \notin {"0", "1", "G"}
    /\ txtA.val[1] # "0" /\ txtA.val[13] # "0" /\ txtA.val[26] # "0"

\* this step is a call of generate() in thread c
GenCall(c) == calls'[c] = calls[c] + 1 /\ call'[c].op = "generate"

\* a < b for two randomness fields read as big-endian integers
RandomLess(a, b) ==
    \E k \in 1..10 : a[k] < b[k] /\ \A i \in 1..(k - 1) : a[i] = b[i]

\* C22: every generate() result has timestamp_ms() equal to its clock
\* reading; of two generate() calls with clock readings t1 < t2 the one at
\* t1 returns the smaller identifier whatever bytes were drawn; with equal
\* readings the randomness alone decides the order
C22_MillisecondSorted ==
    [][\A c \in Threads :
          GenCall(c) =>
              /\ ret'[c].tag = "some"
              /\ timestamp_ms(ret'[c].val) = call'[c].ts
              /\ call[c].op = "generate" =>
                    /\ WordLess(call[c].ts, call'[c].ts)
                          => UlidLess(ret[c].val, ret'[c].val)
                    /\ WordLess(call'[c].ts, call[c].ts)
                          => UlidLess(ret'[c].val, ret[c].val)
                    /\ call[c].ts = call'[c].ts
                          => (UlidLess(ret[c].val, ret'[c].val)
                                <=> RandomLess(call[c].drawn, call'[c].drawn))]_vars

C27_GenerateFrame ==
    [][\A c \in Threads :
          GenCall(c) =>
              /\ have_last'[c] = have_last[c]
              /\ last_ts'[c] = last_ts[c]
              /\ last'[c] = last[c]
              /\ mono_ret'[c] = mono_ret[c]]_vars

\* a generate() call made after generate_monotonic() calls, with another
\* clock reading and other bytes, and the engine still holding the last
\* identifier generate_monotonic() returned
C27_Witness ==
    /\ call[1].op = "generate"
    /\ have_last[1]
    /\ mono_prev[1].tag = "some"
    /\ mono_ret[1].val = last[1]
    /\ call[1].ts # last_ts[1]
    /\ ret[1].val # last[1]

\* C28: last_ts is the largest clock reading generate_monotonic() has seen
\* in its thread (the reading of the first call, then the larger of last_ts
\* and the new reading; no other step changes it), and the timestamp field
\* of last equals last_ts once the engine is primed
C28_LastTimestamp ==
    [][\A c \in Threads :
          /\ MonoCall(c) =>
                last_ts'[c] = IF have_last[c] /\ WordLess(call'[c].ts, last_ts[c])
                              THEN last_ts[c] ELSE call'[c].ts
          /\ ~MonoCall(c) => last_ts'[c] = last_ts[c]
          /\ have_last'[c] => timestamp_ms(last'[c]) = last_ts'[c]]_vars

\* C29: generate_monotonic() draws exactly 10 bytes in the fresh branch and
\* none in the increment branch; its rng is seeded by the thread's first
\* call, from that call's clock reading, and keeps that seed
C29_Draws ==
    [][\A c \in Threads :
          /\ FreshCase(c) =>
                mono_rng'[c].draws =
                    (IF mono_rng[c].tag = "unset" THEN 0 ELSE mono_rng[c].draws) + 10
          /\ IncrementCase(c) => mono_rng'[c] = mono_rng[c]
          /\ (MonoCall(c) /\ mono_rng[c].tag = "unset") =>
                mono_rng'[c].seed = salted_seed(c, call'[c].ts)
          /\ mono_rng[c].tag = "some" =>
                mono_rng'[c].tag = "some" /\ mono_rng'[c].seed = mono_rng[c].seed]_vars

\* two fresh draws at different clock readings, then an increment: twenty
\* bytes drawn, the seed still that of the first reading
C29_Witness ==
    /\ call[1].op = "generate_monotonic"
    /\ call[1].drawn = <<>>
    /\ mono_rng[1].tag = "some"
    /\ mono_rng[1].draws = 20
    /\ mono_rng[1].seed # salted_seed(1, last_ts[1])

\* C23: a generator call in one thread leaves every other thread's last,
\* last_ts, have_last and rng state, and what its calls returned, unchanged
C23_Isolation ==
    [][\A c \in Threads, d \in Threads :
          (calls'[c] # calls[c] /\ d # c) =>
              /\ last'[d] = last[d]
              /\ last_ts'[d] = last_ts[d]
              /\ have_last'[d] = have_last[d]
              /\ mono_rng'[d] = mono_rng[d]
              /\ gen_rng'[d] = gen_rng[d]
              /\ mono_ret'[d] = mono_ret[d]
              /\ ret'[d] = ret[d]
              /\ calls'[d] = calls[d]]_vars

\* both threads have called generate_monotonic() twice; thread 1 read the
\* later clock and then incremented, thread 2 read the earlier one and took
\* a fresh timestamp of its own
C23_Witness ==
    /\ mono_prev[1].tag = "some" /\ mono_prev[2].tag = "some"
    /\ PlusOne(random_bytes(mono_prev[1].val), random_bytes(mono_ret[1].val))
    /\ WordLess(last_ts[2], last_ts[1])
    /\ timestamp_ms(last[1]) = last_ts[1]
    /\ timestamp_ms(last[2]) = last_ts[2]

\* C30: the random sources of two distinct threads never have the same
\* seed, whatever the clock readings of their first calls
C30_DistinctSeeds ==
    \A c \in Threads, d \in Threads :
        c # d =>
            \A e \in {gen_rng[c], mono_rng[c]}, f \in {gen_rng[d], mono_rng[d]} :
                (e.tag = "some" /\ f.tag = "some") => e.seed # f.seed

====
